---- MODULE Spec2Model ----
(***************************************************************************)
(* The hierarchical batch-processing orchestrator of OMR_CheckerProject:   *)
(* src/src/entry.py (entry_point, process_dir, show_template_layouts,      *)
(* process_files, check_and_move) and the Stats counters of                *)
(* src/src/utils/interaction.py.                                           *)
(*                                                                         *)
(* The recursion of process_dir is a stack of frames.  The file system is  *)
(* read where the code reads it: the local files of a directory when       *)
(* process_dir reaches it, an image when the loop opens it.  Every         *)
(* directory is visited once, so this is the same as a tree fixed before   *)
(* the run.                                                                *)
(***************************************************************************)
EXTENDS Integers, Sequences, FiniteSets, TLC

VARIABLES
    args,        \* the run options: [setLayout, template_file]
    stack,       \* the frames of process_dir, the innermost last
    STATS,       \* the module-level Stats() of entry.py
    outputs,     \* per directory: the OutputsNamespace of setup_outputs_for_template
    ops,         \* per template: template.image_instance_ops.pre_processors
    last,        \* <<what the latest loop iteration invoked for its image>>
    decoded,     \* number of images process_files has decoded so far
    tree_files,  \* number of files of the tree met so far
    pc,          \* "running" | "done" | "raised"
    error,       \* the exception that left entry_point, <<>> when none
    replay       \* what a first call of entry_point read, for a second call on
                 \* the same tree

vars ==
    <<args, stack, STATS, outputs, ops, last, decoded, tree_files, pc, error,
      replay>>

----------------------------------------------------------------------------
(* Bounds of the model *)

\* files in the whole tree: images, config.json, template.json, evaluation.json
\* (an injected template is not a file of the tree)
MaxTreeFiles == 2

----------------------------------------------------------------------------
(* The input tree: r holds a and b, a holds a1 *)

Root == "r"

Dirs == {"r", "a", "b", "a1"}

Children(d) ==
    CASE d = "r" -> {"a", "b"}
      [] d = "a" -> {"a1"}
      [] OTHER -> {}

\* the image file names of a directory, by their rank in sorted order
Names == {1, 2}

\* the file name of the marker image the CropOnMarkers steps refer to: the
\* first of the directory
MarkerName == CHOOSE n \in Names : \A m \in Names : n <= m

\* the file name of the image an evaluation.json names as its answer key: the
\* last of the directory
KeyName == CHOOSE n \in Names : \A m \in Names : m <= n

\* where an injected template and its marker are copied to
TempDir == "tmp"

\* a preprocessing step: <<class name, options>>
CropPage == <<"CropPage", 0>>
Markers(o) == <<"CropOnMarkers", o>>

\* the preProcessors lists a template.json may declare
StepLists ==
    { <<CropPage>>,
      <<Markers(2), CropPage, Markers(1)>> }

\* the scores evaluate_concatenated_response may return
Scores == {0, 1}

----------------------------------------------------------------------------
(* Tuning parameters *)

Keys == {"filter_out_multimarked_files", "show_image_level"}

CONFIG_DEFAULTS ==
    [filter_out_multimarked_files |-> FALSE, show_image_level |-> 0]

\* a config.json: the keys it sets and their values
ConfigFiles ==
    { [keys |-> {"filter_out_multimarked_files"},
       vals |-> [filter_out_multimarked_files |-> TRUE, show_image_level |-> 0]],
      [keys |-> {"show_image_level"},
       vals |-> [filter_out_multimarked_files |-> FALSE, show_image_level |-> 2]] }

\* the file's keys over `base`
MergeOver(base, file) ==
    [k \in Keys |-> IF k \in file.keys THEN file.vals[k] ELSE base[k]]

open_config_with_defaults(file) == MergeOver(CONFIG_DEFAULTS, file)

\* the local file merged over the parent's resolved parameters
ResolveTuningOverParent(parent, local) ==
    IF local # <<>> THEN MergeOver(parent, local[1]) ELSE parent

\* process_dir, lines 171-174: parent is the tuning_config argument,
\* local is <<>> or <<the local config.json>>
ResolveTuning(parent, local) ==
    IF local # <<>> THEN open_config_with_defaults(local[1]) ELSE parent

----------------------------------------------------------------------------
(* Paths, templates, scoring keys *)

\* a file of directory d
PathOf(d, n) == <<d, n>>

RECURSIVE SortedNames(_)
\* sorted(): the names of S in ascending order
SortedNames(S) ==
    IF S = {} THEN <<>>
    ELSE LET m == CHOOSE x \in S : \A y \in S : x <= y
         IN <<m>> \o SortedNames(S \ {m})

\* lines 228-229 without sorted(): the glob in descending order of the names
UnsortedGlob(d, found) ==
    LET names == SortedNames(found)
        n == Len(names)
    IN [i \in 1..n |-> PathOf(d, names[n + 1 - i])]

\* lines 228-229: the sorted glob of curr_dir
SortedGlob(d, found) ==
    LET names == SortedNames(found)
    IN [i \in 1..Len(names) |-> PathOf(d, names[i])]

\* Template(path, tuning_config): src is the directory the file was read from
Template(src, steps, tuning) ==
    [src |-> src, pre_processors |-> steps, tuning_config |-> tuning]

\* pp.exclude_files() of a step of a template read from src
exclude_files(pp, src) ==
    IF pp[1] = "CropOnMarkers" THEN {PathOf(src, MarkerName)} ELSE {}

\* lines 232-239
TemplateExcluded(template) ==
    IF template = <<>> THEN {}
    ELSE UNION {exclude_files(template[1].pre_processors[i], template[1].src) :
                    i \in DOMAIN template[1].pre_processors}

\* evaluation_config.get_exclude_files() of the evaluation.json of d
EvaluationFiles(d) == {{PathOf(d, KeyName)}}

\* EvaluationConfig(curr_dir, local_evaluation_path, template, tuning_config)
EvaluationConfig(d, exclude, template, tuning) ==
    [dir |-> d, template |-> template, tuning_config |-> tuning,
     exclude_files |-> exclude]

\* line 242 without the test of setLayout
ReadsEvaluationAlways(a, local_evaluation) == local_evaluation # <<>>

\* line 242: the scoring key is read only outside set-layout mode
ReadsEvaluation(a, local_evaluation) ==
    ~a.setLayout /\ local_evaluation # <<>>

\* line 258 without the filter
KeepAll(omr_files, excluded_files) == omr_files

\* line 258
RemoveExcluded(omr_files, excluded_files) ==
    SelectSeq(omr_files, LAMBDA f : f \notin excluded_files)

----------------------------------------------------------------------------
(* Frames of process_dir *)

\* the call process_dir(root_dir, d, args, template_file, template,
\* tuning_config, evaluation_config), before its first line
Frame(d, template_file, template, tuning, evaluation) ==
    [dir |-> d, phase |-> "enter",
     template_file |-> template_file,
     template |-> template,
     tuning_config |-> tuning,
     evaluation_config |-> evaluation,
     local_config |-> <<>>,
     has_local_template |-> FALSE,
     has_local_evaluation |-> FALSE,
     found |-> {},
     excluded_files |-> {},
     omr_files |-> <<>>,
     n_files |-> 0,
     files_counter |-> 0,
     unreadable |-> 0,
     subdirs |-> <<>>]

Top == stack[Len(stack)]

SetTop(f) == [stack EXCEPT ![Len(stack)] = f]

\* setup_outputs_for_template has not run for the directory
NoOutputs ==
    [created |-> FALSE, template |-> "", Results |-> <<>>, Errors |-> <<>>,
     MultiMarked |-> <<>>, OUTPUT_SET |-> <<>>]

\* line 177 with the output directory of the root for every directory
output_dir_of_root(d) == Root

\* line 177: the output directory of curr_dir mirrors its path below root_dir
output_dir(d) == d

\* lines 268-269: setup_outputs_for_template(paths, template) under a fresh
\* output root
setup_outputs_for_template(template) ==
    [NoOutputs EXCEPT !.created = TRUE, !.template = template[1].src]

\* the values of the template_file argument of entry_point
TemplateFileArgs ==
    {"None", "template_json", "path_missing", "not_json", "unsupported"}

\* Stats(), interaction.py lines 54-60
Stats == [files_moved |-> 0, files_not_moved |-> 0]

\* the three tabular files of every directory of o
Files(o) ==
    [d \in Dirs |->
        [Results |-> o[d].Results, Errors |-> o[d].Errors,
         MultiMarked |-> o[d].MultiMarked]]

\* the output root before a call of entry_point
FreshOutputs == [d \in Dirs |-> NoOutputs]

\* the Template objects before a call of entry_point
FreshOps == [t \in Dirs \cup {TempDir} |-> <<>>]

\* run 0: one call of entry_point, the tree read as it is met.
\* run 1: the first of two calls on one tree: what it reads of the tree, and
\* what the collaborators return for each image, is kept in `tree` and `images`.
\* run 2: the second call: it reads what the first one read; `first` holds
\* the files the first call left
Replay(run) ==
    [run |-> run,
     tree |-> [d \in Dirs |-> <<>>],
     images |-> [f \in Dirs \X Names |-> <<>>],
     first |-> Files(FreshOutputs)]

Init ==
    /\ args \in [setLayout : BOOLEAN, template_file : TemplateFileArgs]
    /\ stack = <<Frame(Root, args.template_file, <<>>, CONFIG_DEFAULTS, <<>>)>>
    /\ STATS = Stats
    /\ outputs = FreshOutputs
    /\ ops = FreshOps
    /\ last = <<>>
    /\ decoded = 0
    /\ tree_files = 0
    /\ pc = "running"
    /\ error = <<>>
    /\ replay = Replay(0)

\* the exception caught in the loop over the subdirectories: the error is
\* reported, the directory is given up and the walk goes on
RaiseAndGoOn(kind, fr) ==
    /\ pc' = pc
    /\ error' = <<[kind |-> kind, dir |-> fr.dir]>>
    /\ stack' = SetTop([fr EXCEPT !.phase = "list", !.omr_files = <<>>])

\* the exception names the root of the walk instead of the directory
RaiseNamingRoot(kind, fr) ==
    /\ pc' = "raised"
    /\ error' = <<[kind |-> kind, dir |-> Root]>>
    /\ stack' = SetTop([fr EXCEPT !.phase = "raised"])

\* an exception raised in the innermost frame fr leaves entry_point: nothing in
\* entry.py or main.py catches it, so no frame runs again
Raise(kind, fr) ==
    /\ pc' = "raised"
    /\ error' = <<[kind |-> kind, dir |-> fr.dir]>>
    /\ stack' = SetTop([fr EXCEPT !.phase = "raised"])

\* lines 183-225 with the two branches swapped: the template.json of the
\* directory is looked for first, the injected file only when there is none
ResolveLocalFirst(fr, tuning, injected, local_template) ==
    IF local_template # <<>>
    THEN <<Template(fr.dir, local_template[1], tuning)>>
    ELSE IF fr.template_file # "None"
         THEN IF fr.template_file = "template_json"
              THEN <<Template(TempDir, injected, tuning)>>
              ELSE <<>>
         ELSE fr.template

\* line 299 left out: a directory without a template.json starts from the
\* default template=None of line 163
ResolveWithoutInherited(fr, tuning, injected, local_template) ==
    IF fr.template_file # "None"
    THEN IF fr.template_file = "template_json"
         THEN <<Template(TempDir, injected, tuning)>>
         ELSE <<>>
    ELSE IF local_template # <<>>
         THEN <<Template(fr.dir, local_template[1], tuning)>>
         ELSE <<>>

\* lines 183-225: <<>> when the load raises, else <<the template in force>>.
\* injected is the step list of the injected file, local_template is <<>> or
\* <<the step list of the local template.json>>
ResolveTemplate(fr, tuning, injected, local_template) ==
    IF fr.template_file # "None"
    THEN IF fr.template_file = "template_json"
         THEN <<Template(TempDir, injected, tuning)>>
         ELSE <<>>
    ELSE IF local_template # <<>>
         THEN <<Template(fr.dir, local_template[1], tuning)>>
         ELSE fr.template

\* lines 190-191, 214-220: the exception of an unusable template_file
TemplateFileError(template_file) ==
    CASE template_file = "path_missing" -> "template_path_missing"
      [] template_file = "not_json" -> "template_not_json"
      [] OTHER -> "template_unsupported"

\* line 335 left out: the counter carries over from the directory before
KeepNotMoved(stats) == stats

\* line 335
ResetNotMoved(stats) == [stats EXCEPT !.files_not_moved = 0]

\* lines 260-261 with the template asked for in every directory
MissingTemplateAnywhere(omr_files, template) == template = <<>>

\* lines 260-261: images are left and no template is in force
MissingTemplate(omr_files, template) == omr_files # <<>> /\ template = <<>>

\* directory d holds what is known of it; a second call is followed only
\* through the directories the first call read
SameTree(d, read) ==
    /\ replay.tree[d] # <<>> => replay.tree[d] = <<read>>
    /\ replay.run = 2 => replay.tree[d] # <<>>

\* a first call keeps what it read in directory d
KeepTree(d, read) ==
    IF replay.run = 1 THEN [replay EXCEPT !.tree[d] = <<read>>] ELSE replay

\* process_dir, lines 158-289, up to the first iteration of the image loop
ProcessDir ==
    /\ pc = "running"
    /\ stack # <<>>
    /\ Top.phase = "enter"
    /\ \E local_config \in {<<>>} \cup {<<c>> : c \in ConfigFiles},
          local_template \in {<<>>} \cup {<<t>> : t \in StepLists},
          injected \in StepLists,
          local_evaluation \in {<<>>} \cup {<<e>> : e \in EvaluationFiles(Top.dir)},
          found \in SUBSET Names :
        LET fr == Top
            d == fr.dir
            tuning == ResolveTuning(fr.tuning_config, local_config)
            template == ResolveTemplate(fr, tuning, injected, local_template)
            globbed == SortedGlob(d, found)
            evaluation ==
                IF ReadsEvaluation(args, local_evaluation)
                THEN <<EvaluationConfig(d, local_evaluation[1], template, tuning)>>
                ELSE fr.evaluation_config
            excluded ==
                TemplateExcluded(template)
                \cup (IF ReadsEvaluation(args, local_evaluation)
                      THEN local_evaluation[1] ELSE {})
            omr_files == RemoveExcluded(globbed, excluded)
            resolved ==
                [fr EXCEPT !.tuning_config = tuning,
                           !.template = template,
                           !.evaluation_config = evaluation,
                           !.local_config = local_config,
                           !.has_local_template = (local_template # <<>>),
                           !.has_local_evaluation = (local_evaluation # <<>>),
                           !.found = found,
                           !.excluded_files = excluded,
                           !.omr_files = omr_files,
                           !.n_files = Len(omr_files)]
            n_met == Len(local_config) + Len(local_template) + Len(local_evaluation)
                     + Cardinality(found)
            read == [local_config |-> local_config,
                     local_template |-> local_template,
                     injected |-> IF fr.template_file = "template_json"
                                  THEN <<injected>> ELSE <<>>,
                     local_evaluation |-> local_evaluation,
                     found |-> found]
        IN /\ tree_files + n_met <= MaxTreeFiles
           /\ SameTree(d, read)
           /\ replay' = KeepTree(d, read)
           /\ tree_files' = tree_files + n_met
           /\ IF fr.template_file \notin {"None", "template_json"}
              THEN /\ Raise(TemplateFileError(fr.template_file),
                            [fr EXCEPT !.tuning_config = tuning,
                                       !.local_config = local_config])
                   /\ UNCHANGED <<STATS, outputs, ops>>
              ELSE /\ IF MissingTemplate(omr_files, template)
                      THEN /\ Raise("no_template", resolved)
                           /\ UNCHANGED <<STATS, outputs, ops>>
                      ELSE /\ pc' = pc
                           /\ error' = error
                           /\ ops' = IF fr.template_file # "None" \/ local_template # <<>>
                                     THEN [ops EXCEPT ![template[1].src] = <<>>]
                                     ELSE ops
                           /\ IF omr_files = <<>>
                              THEN /\ stack' = SetTop([resolved EXCEPT !.phase = "list"])
                                   /\ UNCHANGED <<STATS, outputs>>
                              ELSE /\ outputs' = [outputs EXCEPT
                                          ![output_dir(d)] =
                                              setup_outputs_for_template(template)]
                                   /\ IF args.setLayout
                                      THEN /\ stack' = SetTop([resolved EXCEPT
                                                               !.phase = "layouts"])
                                           /\ STATS' = STATS
                                      ELSE /\ stack' = SetTop([resolved EXCEPT
                                                               !.phase = "files"])
                                           /\ STATS' = ResetNotMoved(STATS)
    /\ UNCHANGED <<args, last, decoded>>

----------------------------------------------------------------------------
(* The preprocessing pipeline *)

\* lines 355-357 with the filter left out: every declared step
all_pre_processors(template) == template.pre_processors

\* lines 355-357 (and 312-314): the CropOnMarkers steps of the template, in
\* declared order
crop_on_markers_only(template) ==
    SelectSeq(template.pre_processors, LAMBDA pp : pp[1] = "CropOnMarkers")

RECURSIVE RunSteps(_, _, _)
\* the steps of pps applied in order to in_omr, each to the output of the one
\* before; an image is the sequence of the transforms applied to it.  The step
\* at position failAt yields the failure signal (0: none does) and ends the run
RunSteps(pps, in_omr, failAt) ==
    IF pps = <<>> THEN [ok |-> TRUE, image |-> in_omr]
    ELSE IF failAt = 1 THEN [ok |-> FALSE, image |-> in_omr]
    ELSE RunSteps(Tail(pps), Append(in_omr, Head(pps)),
                  IF failAt = 0 THEN 0 ELSE failAt - 1)

\* template.image_instance_ops.apply_preprocessors(file_path, in_omr, template):
\* runs the steps held by image_instance_ops.pre_processors
apply_preprocessors(pps, in_omr, failAt) == RunSteps(pps, in_omr, failAt)

----------------------------------------------------------------------------
(* Rows and counters *)

NA == [tag |-> "NA", val |-> 0]

Number(n) == [tag |-> "number", val |-> n]

\* lines 367, 405, 412: [file_name, file_path, new_file_path, score] + response
Row(f, dest, score, resp) ==
    [file_name |-> f[2], file_path |-> f, new_file_path |-> <<dest, f[2]>>,
     score |-> score, resp |-> resp]

\* lines 365, 400: [file_name] + response
SetRow(f, resp) == [file_name |-> f[2], resp |-> resp]

\* check_and_move with the counter left alone
check_and_move_uncounted(stats) == stats

\* check_and_move, lines 418-421: the counter it bumps (it always returns True)
check_and_move(stats) ==
    [stats EXCEPT !.files_not_moved = @ + 1]

\* line 403 with the image counted as moved
CountMoved(stats) == [stats EXCEPT !.files_moved = @ + 1]

\* line 403
CountNotMoved(stats) == [stats EXCEPT !.files_not_moved = @ + 1]

\* line 402 with the tuning switch ignored
ToResultsIgnoringSwitch(multi_marked, tuning) == multi_marked = 0

\* line 402: the row goes to Results
ToResults(multi_marked, tuning) ==
    multi_marked = 0 \/ ~tuning.filter_out_multimarked_files

\* lines 342-344 with the unreadable file counted
CountUnreadable(stats) == [stats EXCEPT !.files_not_moved = @ + 1]

\* lines 342-344: an unreadable file changes no counter
SkipUnreadable(stats) == stats

\* lines 381-387 with the scoring key not asked for: the evaluation runs for
\* every image
ScoreAlways(evaluation_config, evaluated) == evaluated

\* lines 381-387: the score of evaluate_concatenated_response when there is a
\* scoring key, else 0
ScoreOf(evaluation_config, evaluated) ==
    IF evaluation_config # <<>> THEN evaluated ELSE 0

\* one iteration of a loop over omr_files, as `last` keeps it
Entry(mode, fr, f) ==
    [mode |-> mode, dir |-> fr.dir, file |-> f,
     declared |-> fr.template[1].pre_processors,
     filter |-> fr.tuning_config.filter_out_multimarked_files,
     has_key |-> (fr.evaluation_config # <<>>),
     decoded |-> FALSE, applied |-> FALSE, pipeline |-> <<>>,
     preprocessed |-> FALSE, image |-> <<>>, recognized |-> FALSE,
     raised |-> FALSE, evaluated |-> FALSE, score |-> 0, multi_marked |-> 0,
     dest |-> "none"]

\* the frame after the iteration: the loop's last iteration returns to line 291
NextFile(fr) ==
    [fr EXCEPT !.omr_files = Tail(@),
               !.files_counter = @ + 1,
               !.phase = IF Len(fr.omr_files) = 1 THEN "list" ELSE @]

\* the longest declared step list
MaxPipeline == CHOOSE n \in 0..8 : /\ \E l \in StepLists : Len(l) = n
                                   /\ \A l \in StepLists : Len(l) <= n

\* the inputs of one iteration: whether the file decodes, the step that fails
\* (0: none), whether recognition raises, its multi-mark indicator, the score
\* of the evaluation
ImageInputs ==
    [decodes : BOOLEAN, failAt : 0..MaxPipeline, raises : BOOLEAN,
     multi_marked : {0, 1}, score : Scores]

\* what process_files consults of the collaborators' results for one image:
\* the decoding; then the failing step; then whether recognition raises; then
\* the multi-mark indicator, and the score when there is a scoring key
Consulted(in, has_key) ==
    LET none == [decodes |-> FALSE, failAt |-> 0, raises |-> FALSE,
                 multi_marked |-> 0, score |-> 0]
    IN IF ~in.decodes THEN none
       ELSE IF in.failAt # 0
            THEN [none EXCEPT !.decodes = TRUE, !.failAt = in.failAt]
       ELSE IF in.raises
            THEN [none EXCEPT !.decodes = TRUE, !.raises = TRUE]
       ELSE [none EXCEPT !.decodes = TRUE, !.multi_marked = in.multi_marked,
                         !.score = IF has_key THEN in.score ELSE 0]

\* in a second call, the collaborators return for image f what they returned
\* in the first call
SameImage(f, results) ==
    replay.run = 2 => replay.images[f] = <<results>>

\* a first call keeps what the collaborators returned for image f
KeepImage(f, results) ==
    IF replay.run = 1 THEN [replay EXCEPT !.images[f] = <<results>>] ELSE replay

\* process_files, lines 337-415: one iteration of the loop
ProcessFile ==
    /\ pc = "running"
    /\ stack # <<>>
    /\ Top.phase = "files"
    /\ \E in \in ImageInputs :
        LET fr == Top
            d == fr.dir
            f == Head(fr.omr_files)
            template == fr.template[1]
            pps == crop_on_markers_only(template)
            out == apply_preprocessors(pps, <<>>, in.failAt)
            ns == outputs[output_dir(d)]
            e0 == Entry("files", fr, f)
            e1 == [e0 EXCEPT !.decoded = TRUE, !.applied = TRUE, !.pipeline = pps,
                             !.preprocessed = out.ok, !.image = out.image]
            e2 == [e1 EXCEPT !.recognized = TRUE, !.raised = in.raises]
            score == ScoreOf(fr.evaluation_config, in.score)
            e3 == [e2 EXCEPT !.evaluated = (fr.evaluation_config # <<>>),
                             !.score = score,
                             !.multi_marked = in.multi_marked]
            results == Consulted(in, fr.evaluation_config # <<>>)
        IN /\ SameImage(f, results)
           /\ replay' = KeepImage(f, results)
           /\ IF ~in.decodes
              THEN \* lines 341-344
                   /\ STATS' = SkipUnreadable(STATS)
                   /\ last' = <<e0>>
                   /\ stack' = SetTop([NextFile(fr) EXCEPT !.unreadable = @ + 1])
                   /\ UNCHANGED <<outputs, ops, decoded, pc, error>>
              ELSE /\ in.failAt <= Len(pps)
                   /\ decoded' = decoded + 1
                   /\ ops' = [ops EXCEPT ![template.src] = pps]
                   /\ IF ~out.ok
                      THEN \* lines 363-371
                           /\ STATS' = check_and_move(STATS)
                           /\ outputs' = [outputs EXCEPT ![output_dir(d)] =
                                 [ns EXCEPT
                                    !.OUTPUT_SET = Append(@, SetRow(f, "empty_resp")),
                                    !.Errors = Append(@,
                                        Row(f, "errors_dir", NA, "empty_resp"))]]
                           /\ last' = <<[e1 EXCEPT !.dest = "Errors"]>>
                           /\ stack' = SetTop(NextFile(fr))
                           /\ UNCHANGED <<pc, error>>
                      ELSE IF in.raises
                      THEN \* lines 375-399: nothing catches the exception
                           /\ last' = <<e2>>
                           /\ Raise("recognition",
                                    [fr EXCEPT !.files_counter = @ + 1])
                           /\ UNCHANGED <<STATS, outputs>>
                      ELSE \* lines 375-415
                           /\ IF ToResults(in.multi_marked, fr.tuning_config)
                              THEN /\ STATS' = CountNotMoved(STATS)
                                   /\ outputs' = [outputs EXCEPT ![output_dir(d)] =
                                         [ns EXCEPT
                                            !.OUTPUT_SET = Append(@, SetRow(f, "resp_array")),
                                            !.Results = Append(@,
                                                Row(f, "save_marked_dir", Number(score),
                                                    "resp_array"))]]
                                   /\ last' = <<[e3 EXCEPT !.dest = "Results"]>>
                              ELSE /\ STATS' = check_and_move(STATS)
                                   /\ outputs' = [outputs EXCEPT ![output_dir(d)] =
                                         [ns EXCEPT
                                            !.OUTPUT_SET = Append(@, SetRow(f, "resp_array")),
                                            !.MultiMarked = Append(@,
                                                Row(f, "multi_marked_dir", NA,
                                                    "resp_array"))]]
                                   /\ last' = <<[e3 EXCEPT !.dest = "MultiMarked"]>>
                           /\ stack' = SetTop(NextFile(fr))
                           /\ UNCHANGED <<pc, error>>
    /\ UNCHANGED <<args, tree_files>>

\* show_template_layouts, lines 306-323: one iteration of the loop.  The image
\* is handed to the pipeline whatever imread returned; nothing is written
ShowLayout ==
    /\ pc = "running"
    /\ stack # <<>>
    /\ Top.phase = "layouts"
    /\ \E in \in ImageInputs :
        LET fr == Top
            f == Head(fr.omr_files)
            template == fr.template[1]
            pps == crop_on_markers_only(template)
            out == apply_preprocessors(pps, <<>>, in.failAt)
        IN /\ in.failAt <= Len(pps)
           /\ ops' = [ops EXCEPT ![template.src] = pps]
           /\ last' = <<[Entry("layouts", fr, f) EXCEPT
                           !.decoded = in.decodes, !.applied = TRUE,
                           !.pipeline = pps,
                           !.preprocessed = out.ok, !.image = out.image]>>
           /\ stack' = SetTop(NextFile(fr))
    /\ UNCHANGED <<args, STATS, outputs, decoded, tree_files, pc, error, replay>>

\* the orders in which iterdir() may list the directories of S
Orders(S) ==
    {o \in [1..Cardinality(S) -> S] : \A i, j \in DOMAIN o : o[i] = o[j] => i = j}

\* line 292: subdirs = [d for d in curr_dir.iterdir() if d.is_dir()]
ListSubdirs ==
    /\ pc = "running"
    /\ stack # <<>>
    /\ Top.phase = "list"
    /\ \E order \in Orders(Children(Top.dir)) :
        stack' = SetTop([Top EXCEPT !.subdirs = order, !.phase = "subdirs"])
    /\ UNCHANGED <<args, STATS, outputs, ops, last, decoded, tree_files, pc, error,
                   replay>>

\* lines 293-302: the call of process_dir for the next subdirectory
Recurse ==
    /\ pc = "running"
    /\ stack # <<>>
    /\ Top.phase = "subdirs"
    /\ Top.subdirs # <<>>
    /\ stack' = Append(SetTop([Top EXCEPT !.subdirs = Tail(@)]),
                       Frame(Head(Top.subdirs), "None", Top.template,
                             Top.tuning_config, Top.evaluation_config))
    /\ UNCHANGED <<args, STATS, outputs, ops, last, decoded, tree_files, pc, error,
                   replay>>

\* process_dir returning with tuning_config shared by the calls instead of
\* local to each: the caller goes on with what the callee resolved
ReturnSharingScope ==
    /\ pc = "running"
    /\ stack # <<>>
    /\ Top.phase = "subdirs"
    /\ Top.subdirs = <<>>
    /\ stack' = IF Len(stack) = 1 THEN <<>>
                ELSE [SubSeq(stack, 1, Len(stack) - 1) EXCEPT
                        ![Len(stack) - 1].tuning_config = Top.tuning_config]
    /\ pc' = IF Len(stack) = 1 THEN "done" ELSE pc
    /\ UNCHANGED <<args, STATS, outputs, ops, last, decoded, tree_files, error,
                   replay>>

\* line 302, end of the loop: process_dir returns to its caller
Return ==
    /\ pc = "running"
    /\ stack # <<>>
    /\ Top.phase = "subdirs"
    /\ Top.subdirs = <<>>
    /\ stack' = SubSeq(stack, 1, Len(stack) - 1)
    /\ pc' = IF Len(stack) = 1 THEN "done" ELSE pc
    /\ UNCHANGED <<args, STATS, outputs, ops, last, decoded, tree_files, error,
                   replay>>

Next ==
    \/ ProcessDir
    \/ ProcessFile
    \/ ShowLayout
    \/ ListSubdirs
    \/ Recurse
    \/ Return

Spec == Init /\ [][Next]_vars

----------------------------------------------------------------------------
(* Two calls of entry_point on one tree *)

\* main.py, lines 50-56, with the same root given twice and the output root
\* emptied in between: the second call starts when the first has returned or
\* raised.  STATS is a module-level object and keeps what the first call left
RunAgain ==
    /\ replay.run = 1
    /\ pc \in {"done", "raised"}
    /\ replay' = [replay EXCEPT !.run = 2, !.first = Files(outputs)]
    /\ stack' = <<Frame(Root, args.template_file, <<>>, CONFIG_DEFAULTS, <<>>)>>
    /\ outputs' = FreshOutputs
    /\ ops' = FreshOps
    /\ last' = <<>>
    /\ decoded' = 0
    /\ tree_files' = 0
    /\ pc' = "running"
    /\ error' = <<>>
    /\ UNCHANGED <<args, STATS>>

\* what process_dir reads in a directory that holds no file
NothingRead ==
    [local_config |-> <<>>, local_template |-> <<>>, injected |-> <<>>,
     local_evaluation |-> <<>>, found |-> {}]

\* the directories that hold no file in the trees walked twice
EmptyDirs == {"a1"}

InitTwoRuns ==
    /\ args \in [setLayout : BOOLEAN, template_file : TemplateFileArgs]
    /\ stack = <<Frame(Root, args.template_file, <<>>, CONFIG_DEFAULTS, <<>>)>>
    /\ STATS = Stats
    /\ outputs = FreshOutputs
    /\ ops = FreshOps
    /\ last = <<>>
    /\ decoded = 0
    /\ tree_files = 0
    /\ pc = "running"
    /\ error = <<>>
    /\ replay = [Replay(1) EXCEPT
                    !.tree = [d \in Dirs |->
                                IF d \in EmptyDirs THEN <<NothingRead>> ELSE <<>>]]

NextTwoRuns ==
    \/ Next
    \/ RunAgain

SpecTwoRuns == InitTwoRuns /\ [][NextTwoRuns]_vars

----------------------------------------------------------------------------
(* Properties *)

\* the rows of the three tabular files of directory d
RowsOf(d) == outputs[d].Results \o outputs[d].Errors \o outputs[d].MultiMarked

RECURSIVE SumRows(_)
SumRows(S) ==
    IF S = {} THEN 0
    ELSE LET d == CHOOSE x \in S : TRUE
         IN Len(RowsOf(d)) + SumRows(S \ {d})

\* rows appended to Results, Errors and MultiMarked in the whole run
RowCount == SumRows(Dirs)

\* C1: outside set-layout mode, the rows of Results, Errors and MultiMarked
\* together are as many as the images decoded by process_files: every decoded
\* image has exactly one row, none is dropped.
C1_RowsEqualDecoded ==
    ~args.setLayout => RowCount = decoded

\* the directories of frames 1..i, none of which has a template.json, in a run
\* without an injected template
NoTemplateInChain(i) ==
    /\ args.template_file = "None"
    /\ \A j \in 1..i : ~stack[j].has_local_template

\* C2: a directory that holds an image after exclusion, with no template in
\* itself, in any ancestor or injected at the root, makes the run raise an error
\* that names the directory, and no row is written for the directory.
C2_MissingTemplateRaises ==
    \A i \in DOMAIN stack :
        (stack[i].phase # "enter" /\ stack[i].n_files > 0 /\ NoTemplateInChain(i))
        => /\ pc = "raised"
           /\ i = Len(stack)
           /\ error = <<[kind |-> "no_template", dir |-> stack[i].dir]>>
           /\ outputs[stack[i].dir] = NoOutputs

\* a subdirectory with an image and no template raised the error
C2_Witness ==
    /\ pc = "raised"
    /\ Len(stack) > 1
    /\ error = <<[kind |-> "no_template", dir |-> Top.dir]>>
    /\ Top.n_files > 0

\* C3: a directory without a config.json resolves the tuning parameters its
\* parent resolved (the root: the defaults); a directory with one resolves, key
\* by key, the file's value or else the default, whatever the parent resolved.
C3_TuningCascade ==
    \A i \in DOMAIN stack :
        stack[i].phase # "enter" =>
            LET fr == stack[i]
                parent == IF i = 1 THEN CONFIG_DEFAULTS
                          ELSE stack[i - 1].tuning_config
            IN IF fr.local_config = <<>>
               THEN fr.tuning_config = parent
               ELSE \A k \in Keys :
                       fr.tuning_config[k] =
                           IF k \in fr.local_config[1].keys
                           THEN fr.local_config[1].vals[k]
                           ELSE CONFIG_DEFAULTS[k]

\* the root sets show_image_level, its child has no file and inherits it, the
\* grandchild has a file that sets only the other key
C3_Witness ==
    /\ Len(stack) = 3
    /\ stack[3].phase # "enter"
    /\ stack[1].local_config # <<>>
    /\ stack[2].local_config = <<>>
    /\ stack[2].tuning_config.show_image_level = 2
    /\ stack[3].local_config # <<>>
    /\ "show_image_level" \notin stack[3].local_config[1].keys
    /\ stack[3].tuning_config.show_image_level = 0

\* C4: no file in the exclusion set of its directory (the paths the template's
\* steps report, and those the directory's own scoring key reports) has a row
\* in Results, Errors or MultiMarked.
\* The rows of a directory are written while its frame is on the stack and
\* never change after it returns, so the frames on the stack are the ones to
\* look at.
C4_ExcludedHaveNoRow ==
    \A i \in DOMAIN stack :
        LET rows == RowsOf(stack[i].dir)
        IN \A r \in DOMAIN rows :
              rows[r].file_path \notin stack[i].excluded_files

\* the directory holds an image that is in its exclusion set, and its walk
\* went on past the image loop
C4_Witness ==
    /\ stack # <<>>
    /\ Top.phase = "list"
    /\ \E n \in Top.found : PathOf(Top.dir, n) \in Top.excluded_files

\* a step of the image loop of process_files
FileStep ==
    /\ pc = "running"
    /\ stack # <<>>
    /\ Top.phase = "files"
    /\ last' # <<>>

\* the frame of the loop after the step
TopAfter == stack'[Len(stack)]

\* C5: a decoded image whose preprocessing yields the failure signal gets one
\* row in Errors, with the empty response vector and the score NA, and none in
\* Results or MultiMarked; recognition and evaluation are not invoked;
\* files_not_moved grows by one; the loop goes on with the next image.
C5_PreprocessingFailure ==
    [][ (FileStep /\ last'[1].decoded /\ ~last'[1].preprocessed) =>
          LET d == Top.dir
              f == Head(Top.omr_files)
          IN /\ outputs'[d].Errors =
                   Append(outputs[d].Errors,
                          [file_name |-> f[2], file_path |-> f,
                           new_file_path |-> <<"errors_dir", f[2]>>,
                           score |-> NA, resp |-> "empty_resp"])
             /\ outputs'[d].Results = outputs[d].Results
             /\ outputs'[d].MultiMarked = outputs[d].MultiMarked
             /\ \A x \in Dirs \ {d} : outputs'[x] = outputs[x]
             /\ ~last'[1].recognized
             /\ ~last'[1].evaluated
             /\ STATS'.files_not_moved = STATS.files_not_moved + 1
             /\ STATS'.files_moved = STATS.files_moved
             /\ pc' = "running"
             /\ Len(stack') = Len(stack)
             /\ TopAfter.omr_files = Tail(Top.omr_files) ]_vars

\* the latest image was decoded, failed in the second CropOnMarkers step and
\* went to Errors
C5_Witness ==
    /\ last # <<>>
    /\ last[1].mode = "files"
    /\ last[1].decoded
    /\ ~last[1].preprocessed
    /\ last[1].image # <<>>
    /\ last[1].dest = "Errors"
    /\ STATS.files_not_moved = 1

\* the latest row of file `dest` of the directory of entry e
LatestRow(e) ==
    LET rows == outputs[e.dir][e.dest]
    IN rows[Len(rows)]

\* the latest iteration preprocessed and recognized its image
Recognized(e) ==
    e.mode = "files" /\ e.decoded /\ e.preprocessed /\ e.recognized /\ ~e.raised

\* C6: a preprocessed and recognized image goes to MultiMarked exactly when its
\* multi-mark indicator is set and the directory's tuning parameters ask for
\* multi-mark filtering; otherwise it goes to Results, with the full response
\* vector and the score.
C6_MultiMarkRouting ==
    (last # <<>> /\ Recognized(last[1])) =>
        LET e == last[1]
        IN /\ e.dest \in {"Results", "MultiMarked"}
           /\ (e.dest = "MultiMarked") <=> (e.multi_marked # 0 /\ e.filter)
           /\ LatestRow(e).file_path = e.file
           /\ LatestRow(e).resp = "resp_array"
           /\ e.dest = "Results" =>
                 LatestRow(e).score =
                     [tag |-> "number", val |-> IF e.has_key THEN e.score ELSE 0]

\* a multi-marked image under filter_out_multimarked_files went to MultiMarked
C6_Witness ==
    /\ last # <<>>
    /\ Recognized(last[1])
    /\ last[1].multi_marked = 1
    /\ last[1].filter
    /\ last[1].dest = "MultiMarked"
    /\ Len(outputs[last[1].dir].MultiMarked) = 1

\* C7 as claimed: neither counter ever decreases from one step to the next.
C7_NeverDecreases ==
    [][ /\ STATS'.files_moved >= STATS.files_moved
        /\ STATS'.files_not_moved >= STATS.files_not_moved ]_vars

\* the step of process_dir that starts process_files on a directory's images
StartsFiles ==
    /\ stack # <<>>
    /\ Top.phase = "enter"
    /\ Len(stack') = Len(stack)
    /\ TopAfter.phase = "files"

\* C7, amended: files_moved never changes; files_not_moved is set to 0 each
\* time process_files starts on the images of a directory, and decreases at no
\* other step.
C7_ResetPerDirectory ==
    [][ /\ STATS'.files_moved = STATS.files_moved
        /\ StartsFiles => STATS'.files_not_moved = 0
        /\ ~StartsFiles => STATS'.files_not_moved >= STATS.files_not_moved ]_vars

\* process_files has started on a directory after rows were written for
\* another one, and the counter is back at 0
C7_Witness ==
    /\ stack # <<>>
    /\ Top.phase = "files"
    /\ Top.files_counter = 0
    /\ RowCount > 0
    /\ STATS.files_not_moved = 0

\* C8: an image whose recognition raises is recorded as a failure and the loop
\* goes on: the exception does not leave the image loop.
C8_RecognitionFailureRecorded ==
    (last # <<>> /\ last[1].recognized /\ last[1].raised) =>
        /\ pc # "raised"
        /\ last[1].dest # "none"

\* C9: an image that fails to decode gets no row in any file and no entry in
\* OUTPUT_SET, changes no counter, is handed neither to preprocessing nor to
\* recognition, and the loop goes on with the next image.
C9_UnreadableSkipped ==
    [][ (FileStep /\ ~last'[1].decoded) =>
          /\ outputs' = outputs
          /\ STATS' = STATS
          /\ ops' = ops
          /\ ~last'[1].applied
          /\ ~last'[1].recognized
          /\ ~last'[1].evaluated
          /\ pc' = "running"
          /\ Len(stack') = Len(stack)
          /\ TopAfter.omr_files = Tail(Top.omr_files) ]_vars

\* the latest image of process_files failed to decode, after an image that got
\* a row
C9_Witness ==
    /\ last # <<>>
    /\ last[1].mode = "files"
    /\ ~last[1].decoded
    /\ RowCount > 0
    /\ pc = "running"

\* the latest iteration of process_files ran the whole pipeline on its image
Preprocessed(e) == e.mode = "files" /\ e.decoded /\ e.preprocessed

\* C10 as claimed: the image results from every declared step of the template,
\* applied in declared order.
C10_EveryDeclaredStep ==
    (last # <<>> /\ Preprocessed(last[1])) => last[1].image = last[1].declared

RECURSIVE Without(_, _)
\* seq without its steps of class name k, the others in their order
Without(seq, k) ==
    IF seq = <<>> THEN <<>>
    ELSE IF Head(seq)[1] = k THEN Without(Tail(seq), k)
    ELSE <<Head(seq)>> \o Without(Tail(seq), k)

\* C10, amended: in normal processing the image results from exactly the
\* CropOnMarkers steps of the template, applied in declared order, each to the
\* output of the one before; the CropPage steps are left out.
C10_MarkerStepsOnly ==
    (last # <<>> /\ Preprocessed(last[1])) =>
        last[1].image = Without(last[1].declared, "CropPage")

\* the image went through both CropOnMarkers steps of a template that also
\* declares a CropPage step between them
C10_Witness ==
    /\ last # <<>>
    /\ Preprocessed(last[1])
    /\ Len(last[1].declared) = 3
    /\ last[1].image = <<Markers(2), Markers(1)>>

\* a step of the image loop of show_template_layouts
LayoutStep ==
    /\ pc = "running"
    /\ stack # <<>>
    /\ Top.phase = "layouts"
    /\ last' # <<>>

\* C11: in set-layout mode the pipeline handed to an image holds exactly the
\* CropOnMarkers steps of the template, in declared order, and no step of any
\* other kind; the image goes through them in that order; the template's own
\* declared step list is the same after the invocation as before.
C11_PreviewPipeline ==
    [][ LayoutStep =>
          LET declared == Top.template[1].pre_processors
              pipeline == last'[1].pipeline
          IN /\ last'[1].applied
             /\ pipeline = Without(declared, "CropPage")
             /\ \A i \in DOMAIN pipeline : pipeline[i][1] = "CropOnMarkers"
             /\ ops'[Top.template[1].src] = pipeline
             /\ last'[1].preprocessed => last'[1].image = pipeline
             /\ Len(stack') = Len(stack)
             /\ TopAfter.template = Top.template
             /\ TopAfter.template[1].pre_processors = declared ]_vars

\* set-layout mode ran both CropOnMarkers steps, and not the CropPage step
\* between them, on an image of a template that declares the three
C11_Witness ==
    /\ args.setLayout
    /\ last # <<>>
    /\ last[1].mode = "layouts"
    /\ Len(last[1].declared) = 3
    /\ last[1].preprocessed
    /\ last[1].image = <<Markers(2), Markers(1)>>
    /\ stack # <<>>
    /\ Top.template[1].pre_processors = last[1].declared

\* the file names of rows, in their order
NamesOf(rows) == [i \in DOMAIN rows |-> rows[i].file_name]

\* the numbers of seq are in strictly ascending order
Ascending(seq) == \A i, j \in DOMAIN seq : i < j => seq[i] < seq[j]

\* C12: in every directory the rows of each output file, and the rows of
\* OUTPUT_SET over the three together, are in ascending order of file name; the
\* images still to handle come after every image already handled; and while a
\* subdirectory is being walked, no image of any directory above it is left to
\* handle.
C12_WalkOrder ==
    /\ \A d \in Dirs :
          /\ Ascending(NamesOf(outputs[d].Results))
          /\ Ascending(NamesOf(outputs[d].Errors))
          /\ Ascending(NamesOf(outputs[d].MultiMarked))
          /\ Ascending(NamesOf(outputs[d].OUTPUT_SET))
    /\ \A i \in DOMAIN stack :
          LET fr == stack[i]
              todo == [k \in DOMAIN fr.omr_files |-> fr.omr_files[k][2]]
          IN /\ Ascending(NamesOf(outputs[fr.dir].OUTPUT_SET) \o todo)
             /\ i < Len(stack) => (fr.omr_files = <<>> /\ fr.phase = "subdirs")

\* a directory with two images has the row of the first before the row of the
\* second
C12_Witness ==
    \E d \in Dirs :
        /\ Len(outputs[d].OUTPUT_SET) = 2
        /\ outputs[d].OUTPUT_SET[1].file_name < outputs[d].OUTPUT_SET[2].file_name
        /\ Len(RowsOf(d)) = 2

\* a second call of entry_point on the tree has ended
SecondRunEnded == replay.run = 2 /\ pc \in {"done", "raised"}

ReusesTemplate(i, j) ==
    /\ i < j
    /\ stack[i].phase # "enter"
    /\ stack[j].phase \notin {"enter", "raised"}
    /\ stack[i].n_files > 0
    /\ stack[j].n_files > 0
    /\ stack[j].template = stack[i].template

\* C14 as claimed: a descendant with images that reuses the template its
\* ancestor resolved sets up no namespace of its own; its rows go to the one
\* set up for the ancestor.
C14_OncePerSubtree ==
    \A i, j \in DOMAIN stack :
        ReusesTemplate(i, j) =>
            /\ ~outputs[stack[j].dir].created
            /\ RowsOf(stack[j].dir) = <<>>

\* the rows and OUTPUT_SET of namespace ns
Written(ns) == <<ns.Results, ns.Errors, ns.MultiMarked, ns.OUTPUT_SET>>

\* C14, amended: a namespace is set up once for every directory that has images
\* left after exclusion, descendants that reuse the inherited template
\* included: it is set up, empty and for the template in force, by the step of
\* process_dir that finds the images, it is never set up again, only the
\* directory being walked is written to, and a directory without a namespace
\* has no row.
C14_OncePerDirectory ==
    [][ /\ \A d \in Dirs :
              /\ outputs[d].created =>
                    /\ outputs'[d].created
                    /\ outputs'[d].template = outputs[d].template
              /\ (~outputs[d].created /\ outputs'[d].created) =>
                    /\ Top.dir = d
                    /\ Top.phase = "enter"
                    /\ TopAfter.n_files > 0
                    /\ outputs'[d].template = TopAfter.template[1].src
                    /\ Written(outputs'[d]) = Written(NoOutputs)
              /\ outputs'[d] # outputs[d] => (stack # <<>> /\ Top.dir = d)
              /\ ~outputs'[d].created => Written(outputs'[d]) = Written(NoOutputs)
        /\ \A i \in DOMAIN stack' :
              (stack'[i].phase \notin {"enter", "raised"} /\ stack'[i].n_files > 0)
                  => outputs'[stack'[i].dir].created ]_vars

\* a directory with an image, walked with the template its parent resolved and
\* used for an image of its own, has its own namespace and its own row
C14_Witness ==
    /\ Len(stack) > 1
    /\ ReusesTemplate(1, Len(stack))
    /\ outputs[stack[1].dir].created
    /\ outputs[Top.dir].created
    /\ RowsOf(stack[1].dir) # <<>>
    /\ RowsOf(Top.dir) # <<>>

Scope(fr) == <<fr.tuning_config, fr.template, fr.evaluation_config>>

\* the scope the directory of frame i is handed: the one its parent resolved,
\* the defaults of process_dir for the root
ParentScope(i) ==
    IF i = 1 THEN <<CONFIG_DEFAULTS, <<>>, <<>>>> ELSE Scope(stack[i - 1])

\* what frame fr found of the three local files
LocalFiles(fr) ==
    <<fr.local_config, fr.has_local_template, fr.has_local_evaluation>>

\* frame i of stk holds the scope that the scope handed to it and its own
\* local files give
Cascades(stk, i, parent) ==
    LET fr == stk[i]
        injected_here == fr.template_file # "None"
    IN IF fr.phase = "enter"
       THEN Scope(fr) = parent
       ELSE /\ fr.local_config = <<>> => fr.tuning_config = parent[1]
            /\ fr.local_config # <<>> =>
                  \A k \in fr.local_config[1].keys :
                      fr.tuning_config[k] = fr.local_config[1].vals[k]
            /\ (~fr.has_local_template /\ ~injected_here) =>
                  fr.template = parent[2]
            /\ (fr.has_local_template /\ ~injected_here) =>
                  /\ fr.template # <<>>
                  /\ fr.template[1].src = fr.dir
            /\ (~fr.has_local_evaluation \/ args.setLayout) =>
                  fr.evaluation_config = parent[3]
            /\ (fr.has_local_evaluation /\ ~args.setLayout) =>
                  /\ fr.evaluation_config # <<>>
                  /\ fr.evaluation_config[1].dir = fr.dir

\* C16: a directory is handed the scope its parent resolved, whatever was
\* walked before it; without local files it resolves that scope unchanged; a
\* local config.json, template.json or evaluation.json replaces its own
\* sub-object and leaves the other two as handed (outside set-layout mode for
\* evaluation.json); and once a directory has resolved its scope, no step of
\* the walk of its subdirectories changes it.
C16_ScopeCascade ==
    [][ /\ \A i \in DOMAIN stack : Cascades(stack, i, ParentScope(i))
        /\ \A i \in DOMAIN stack' :
              Cascades(stack', i,
                       IF i = 1 THEN <<CONFIG_DEFAULTS, <<>>, <<>>>>
                       ELSE Scope(stack'[i - 1]))
        /\ \A i \in DOMAIN stack \cap DOMAIN stack' :
              stack[i].phase # "enter" =>
                  /\ Scope(stack'[i]) = Scope(stack[i])
                  /\ LocalFiles(stack'[i]) = LocalFiles(stack[i]) ]_vars

\* the root set tuning parameters, its child replaced the template only and
\* kept the tuning parameters, and the grandchild, with no local file, resolved
\* the child's scope
C16_Witness ==
    /\ Len(stack) = 3
    /\ stack[3].phase # "enter"
    /\ stack[1].local_config # <<>>
    /\ stack[1].template # <<>>
    /\ stack[2].local_config = <<>>
    /\ stack[2].has_local_template
    /\ stack[2].tuning_config = stack[1].tuning_config
    /\ stack[2].tuning_config # CONFIG_DEFAULTS
    /\ stack[2].template # stack[1].template
    /\ LocalFiles(stack[3]) = <<<<>>, FALSE, FALSE>>
    /\ Scope(stack[3]) = Scope(stack[2])

\* the latest iteration of process_files wrote a row
WroteRow(e) == e.mode = "files" /\ e.dest # "none"

\* C17 as claimed: a row written for an image without a computed score carries
\* NA, and a row carries a number only when the evaluation computed one.
C17_PlaceholderWithoutScore ==
    (last # <<>> /\ WroteRow(last[1])) =>
        LET e == last[1]
            row == LatestRow(e)
        IN /\ ~e.evaluated => row.score = [tag |-> "NA", val |-> 0]
           /\ row.score.tag = "number" => e.evaluated

\* C17, amended: a row of Errors or MultiMarked carries NA, also when a score
\* was computed for the image; a row of Results carries a number: the score
\* the evaluation computed when the directory has a scoring key, 0 when it has
\* none.
C17_ScoreField ==
    (last # <<>> /\ WroteRow(last[1])) =>
        LET e == last[1]
            row == LatestRow(e)
        IN /\ row.file_path = e.file
           /\ e.evaluated <=> (e.has_key /\ e.preprocessed)
           /\ e.dest \in {"Errors", "MultiMarked"} =>
                 row.score = [tag |-> "NA", val |-> 0]
           /\ e.dest = "Results" =>
                 /\ row.score.tag = "number"
                 /\ e.has_key => row.score.val = e.score
                 /\ ~e.has_key => row.score.val = 0

\* a directory without a scoring key has a row in Results, for an image that
\* was not evaluated, with the score 0
C17_Witness ==
    /\ last # <<>>
    /\ WroteRow(last[1])
    /\ last[1].dest = "Results"
    /\ ~last[1].has_key
    /\ ~last[1].evaluated
    /\ LatestRow(last[1]).score = [tag |-> "number", val |-> 0]

\* the rows of the three tabular files of directory d in the outputs o
RowsIn(o, d) == o[d].Results \o o[d].Errors \o o[d].MultiMarked

\* in or right after the image loop of process_files on the directory of the
\* innermost frame of stk: the two counters of st together are the number of
\* rows of the directory, and with the images that failed to decode they make
\* up files_counter
Tallies(stk, st, o) ==
    (stk # <<>> /\ ~args.setLayout) =>
        LET fr == stk[Len(stk)]
        IN (fr.phase \in {"files", "list"} /\ fr.n_files > 0) =>
              /\ st.files_moved + st.files_not_moved = Len(RowsIn(o, fr.dir))
              /\ fr.files_counter =
                    st.files_moved + st.files_not_moved + fr.unreadable
              /\ fr.phase = "list" => fr.files_counter = fr.n_files

\* C18: every image that gets a row, in Results, Errors or MultiMarked, adds
\* exactly one to files_not_moved and one row to its directory; files_moved
\* stays 0; so in and after the image loop of a directory the two counters
\* together are the number of rows of the directory, and files_counter is that
\* number plus the number of images that failed to decode.
C18_CountersTally ==
    [][ /\ STATS.files_moved = 0
        /\ STATS'.files_moved = 0
        /\ (FileStep /\ last'[1].dest # "none") =>
              /\ STATS'.files_not_moved = STATS.files_not_moved + 1
              /\ Len(RowsIn(outputs', Top.dir)) = Len(RowsOf(Top.dir)) + 1
              /\ TopAfter.files_counter = Top.files_counter + 1
              /\ TopAfter.unreadable = Top.unreadable
        /\ Tallies(stack, STATS, outputs)
        /\ Tallies(stack', STATS', outputs') ]_vars

\* the image loop of a directory with two images has ended: one failed to
\* decode, the other got a row
C18_Witness ==
    /\ ~args.setLayout
    /\ pc = "running"
    /\ stack # <<>>
    /\ Top.phase = "list"
    /\ Top.n_files = 2
    /\ Top.files_counter = 2
    /\ Top.unreadable = 1
    /\ Len(RowsOf(Top.dir)) = 1
    /\ STATS.files_not_moved = 1

\* C19: in set-layout mode no row is appended to Results, Errors or
\* MultiMarked nor to OUTPUT_SET, in any directory; both counters stay as
\* they were at the start; no image is handed to recognition or evaluation;
\* and no directory resolves a scoring key, nor excludes the files one names,
\* even where it holds an evaluation.json.
C19_PreviewWritesNothing ==
    args.setLayout =>
        /\ \A d \in Dirs : Written(outputs[d]) = Written(NoOutputs)
        /\ STATS = Stats
        /\ decoded = 0
        /\ last # <<>> =>
              /\ last[1].mode = "layouts"
              /\ ~last[1].recognized
              /\ ~last[1].evaluated
              /\ ~last[1].has_key
              /\ last[1].dest = "none"
        /\ \A i \in DOMAIN stack :
              /\ stack[i].evaluation_config = <<>>
              /\ stack[i].phase \in {"layouts", "list", "subdirs"} =>
                    stack[i].excluded_files = TemplateExcluded(stack[i].template)

\* set-layout mode showed the layout for an image of a directory that holds an
\* evaluation.json
C19_Witness ==
    /\ args.setLayout
    /\ stack # <<>>
    /\ Top.has_local_evaluation
    /\ Top.phase = "list"
    /\ Top.n_files > 0
    /\ last # <<>>
    /\ last[1].dir = Top.dir
    /\ last[1].applied
    /\ outputs[Top.dir].created

\* the step of process_dir that resolves the scope of a directory and finds no
\* image left after exclusion, under a usable template_file argument
FindsNoImage ==
    /\ pc = "running"
    /\ stack # <<>>
    /\ Top.phase = "enter"
    /\ Top.template_file \in {"None", "template_json"}
    /\ Len(stack') = Len(stack)
    /\ TopAfter.n_files = 0

\* seq lists every element of S once
ListsOnce(seq, S) ==
    /\ Len(seq) = Cardinality(S)
    /\ {seq[i] : i \in DOMAIN seq} = S

\* C20: a directory with no image left after exclusion does not raise the
\* missing-template error and gets no namespace and no row, with or without a
\* template; its walk goes on to list all its subdirectories; each of them is
\* entered with the scope the directory resolved; and the directory returns
\* only when none is left to enter.
C20_NoImagesNoError ==
    [][ /\ FindsNoImage =>
              /\ pc' = "running"
              /\ error' = <<>>
              /\ outputs' = outputs
              /\ ~outputs'[Top.dir].created
              /\ TopAfter.phase = "list"
        /\ (pc' = "raised" /\ error'[1].kind = "no_template") =>
              stack'[Len(stack')].n_files > 0
        /\ (stack # <<>> /\ Top.phase = "list") =>
              /\ Len(stack') = Len(stack)
              /\ TopAfter.phase = "subdirs"
              /\ ListsOnce(TopAfter.subdirs, Children(Top.dir))
        /\ Len(stack') = Len(stack) + 1 =>
              /\ Top.phase = "subdirs"
              /\ stack'[Len(stack')].dir = Head(Top.subdirs)
              /\ stack'[Len(stack')].phase = "enter"
              /\ Scope(stack'[Len(stack')]) = Scope(Top)
              /\ TopAfter.subdirs = Tail(Top.subdirs)
        /\ Len(stack') < Len(stack) =>
              /\ Top.phase = "subdirs"
              /\ Top.subdirs = <<>> ]_vars

\* the root has no template and no image; its subdirectory has a template.json
\* of its own and an image, which got its row
C20_Witness ==
    /\ args.template_file = "None"
    /\ Len(stack) = 2
    /\ stack[1].n_files = 0
    /\ stack[1].template = <<>>
    /\ stack[1].phase = "subdirs"
    /\ Top.has_local_template
    /\ Top.n_files > 0
    /\ RowsOf(Top.dir) # <<>>
    /\ pc = "running"

\* frame i has resolved its template
ResolvedTemplate(i) == stack[i].phase \notin {"enter", "raised"}

\* C21: with an injected template, the root resolves the injected file, also
\* when it holds a template.json; no directory below the root is handed the
\* injected source; a directory below the root without a template.json has the
\* very template its parent resolved, as it was loaded, whatever tuning
\* parameters it resolves itself; one with a template.json resolves that file,
\* loaded with its own tuning parameters.
C21_InjectedTemplatePrecedence ==
    \A i \in DOMAIN stack :
        LET fr == stack[i]
        IN /\ fr.template_file = (IF i = 1 THEN args.template_file ELSE "None")
           /\ (i = 1 /\ args.template_file = "template_json" /\ ResolvedTemplate(i)) =>
                 /\ fr.template # <<>>
                 /\ fr.template[1].src = TempDir
                 /\ fr.template[1].tuning_config = fr.tuning_config
           /\ (i > 1 /\ ResolvedTemplate(i) /\ ~fr.has_local_template) =>
                 fr.template = stack[i - 1].template
           /\ (i > 1 /\ ResolvedTemplate(i) /\ fr.has_local_template) =>
                 /\ fr.template # <<>>
                 /\ fr.template[1].src = fr.dir
                 /\ fr.template[1].tuning_config = fr.tuning_config

\* the root holds a template.json and resolved the injected template; its
\* subdirectory, with a config.json of its own and no template.json, has the
\* root's template as the root loaded it
C21_Witness ==
    /\ args.template_file = "template_json"
    /\ Len(stack) = 2
    /\ ResolvedTemplate(1)
    /\ ResolvedTemplate(2)
    /\ stack[1].has_local_template
    /\ stack[1].template[1].src = TempDir
    /\ stack[2].local_config # <<>>
    /\ ~stack[2].has_local_template
    /\ stack[2].template = stack[1].template
    /\ stack[2].template[1].tuning_config # stack[2].tuning_config

====
